---- MODULE Spec2Model ----
(***************************************************************************)
(* Model of web/reports/mea/wrapper.py: the pretty printer and the pretty  *)
(* parser of converted error traces.  Texts are sequences of characters    *)
(* (one-character strings); the regular expressions of the parser are      *)
(* computed character by character.                                        *)
(***************************************************************************)
EXTENDS Integers, Sequences, FiniteSets, TLC

\* Longest converted error trace handed to error_trace_pretty_print.
MaxLen == 3
\* Largest number of lines of an edited text handed to error_trace_pretty_parse.
MaxLines == 4

(***************************************************************************)
(* Characters and Python values                                            *)
(***************************************************************************)
Digits == {"0", "1", "2", "3", "4", "5", "6", "7", "8", "9"}

Letters ==
  {"a", "b", "c", "d", "e", "f", "g", "h", "i", "j", "k", "l", "m",
   "n", "o", "p", "q", "r", "s", "t", "u", "v", "w", "x", "y", "z",
   "A", "B", "C", "D", "E", "F", "G", "H", "I", "J", "K", "L", "M",
   "N", "O", "P", "Q", "R", "S", "T", "U", "V", "W", "X", "Y", "Z"}

WordChars == Letters \cup Digits \cup {"_"}

SpaceChars == {" ", "\t", "\n", "\r"}

\* \w of the regular expressions
IsWord(c) == c \in WordChars

\* \s of the regular expressions, and what str.strip() removes
IsSpace(c) == c \in SpaceChars

\* Python's None
None == <<"None">>

\* Python's truth value of a string or None
Truthy(s) == s # None /\ s # <<>>

\* A Python int and a Python str are different values even when they print alike.
IntV(n) == [ty |-> "int", val |-> n]
StrV(s) == [ty |-> "str", val |-> s]

\* Python's == between an int and a str is False; otherwise the values decide.
PyEq(a, b) == a.ty = b.ty /\ a.val = b.val

DigitChars == <<"0", "1", "2", "3", "4", "5", "6", "7", "8", "9">>

\* str(n) of a non-negative int
RECURSIVE DecStr(_)
DecStr(n) ==
  IF n < 10 THEN <<DigitChars[n + 1]>>
  ELSE DecStr(n \div 10) \o <<DigitChars[(n % 10) + 1]>>

DigitVal(c) == CHOOSE d \in 0..9 : DigitChars[d + 1] = c

\* int(s) of a string of decimal digits
RECURSIVE DecInt(_)
DecInt(s) ==
  IF Len(s) = 1 THEN DigitVal(s[1])
  ELSE 10 * DecInt(SubSeq(s, 1, Len(s) - 1)) + DigitVal(s[Len(s)])

\* str(x) of an int or a str
PyStr(x) == IF x.ty = "str" THEN x ELSE StrV(DecStr(x.val))

\* c * n: n copies of the character, none when n <= 0
Rep(c, n) == [k \in 1..n |-> c]

\* Exceptions: the type and, for a ValueError, the message.
NoError == [type |-> "none", msg |-> <<>>]
IndexError == [type |-> "IndexError", msg |-> <<>>]

(***************************************************************************)
(* Constants of the library                                                *)
(***************************************************************************)
CODE_LINE_SEPARATOR == <<"|">>
FUNCTION_CALL_SEPARATOR == " "
CET_END == <<"_", "_", "E", "R", "R", "O", "R", "_", "_">>

\* The operation names of reports.mea.core
CET_OP_CALL == <<"c", "a", "l", "l">>
CET_OP_RETURN == <<"r", "e", "t", "u", "r", "n">>
CET_OP_ASSUME == <<"a", "s", "s", "u", "m", "e">>
CET_OP_ASSIGN == <<"a", "s", "s", "i", "g", "n">>
CET_OP_NOTE == <<"n", "o", "t", "e">>
CET_OP_WARN == <<"w", "a", "r", "n">>

CET_OPS ==
  {CET_OP_CALL, CET_OP_RETURN, CET_OP_ASSUME, CET_OP_ASSIGN, CET_OP_NOTE, CET_OP_WARN}

\* One element of a converted error trace (the CET_* keys of reports.mea.core)
Element(op, thread, line, source, name) ==
  [op |-> op, thread |-> thread, line |-> line, source |-> source,
   display_name |-> name, id |-> 0]

(***************************************************************************)
(* State                                                                   *)
(***************************************************************************)
VARIABLES
  pc,                \* position of the program
  cet0,              \* the caller's trace as it was before the call
  cet,               \* converted_error_trace, the list the printer is given
  print_i,           \* index of the element the printer's second loop is at
  result,            \* the printer's result
  level,             \* the printer's level
  print_cur_thread,  \* the printer's cur_thread
  print_stack,       \* the printer's stack
  text,              \* pretty_error_trace, the text the parser is given
  lines,             \* pretty_error_trace.splitlines()
  parse_i,           \* index of the line the parser's loop is at
  converted,         \* the parser's converted_error_trace
  cur_thread,        \* the parser's cur_thread
  cur_level,         \* the parser's cur_level
  stack,             \* the parser's stack
  not_parsed,        \* the parser's not_parsed
  line,              \* the parser's loop variable line
  error,             \* the exception raised, NoError when there is none
  goc,               \* the frames of the get_or_convert_error_trace calls, one per caller
  cache,             \* the rows of ErrorTraceConvertionCache, in the order of creation
  archive,           \* the error trace archive of the report: the trace of each conversion
  log,               \* what has happened so far: calls, lookups, archive reads, conversions, stores
  auto               \* the frame of automatic_error_trace_editing

vars ==
  <<pc, cet0, cet, print_i, result, level, print_cur_thread, print_stack,
    text, lines, parse_i, converted, cur_thread, cur_level, stack,
    not_parsed, line, error, goc, cache, archive, log, auto>>

\* The state of the cache and of the functions that work with it.
orchVars == <<goc, cache, archive, log, auto>>

printVars == <<cet, print_i, result, level, print_cur_thread, print_stack>>

parseVars ==
  <<text, lines, parse_i, converted, cur_thread, cur_level, stack, not_parsed, line>>

(***************************************************************************)
(* error_trace_pretty_print                                                *)
(***************************************************************************)
\* The line number right-aligned in five characters.
FormatLineNo(n) ==
  LET s == DecStr(n)
      str_line_len == Len(s)
  IN  IF str_line_len = 2 THEN Rep(" ", 3) \o s
      ELSE IF str_line_len = 1 THEN Rep(" ", 4) \o s
      ELSE IF str_line_len = 3 THEN Rep(" ", 2) \o s
      ELSE IF str_line_len = 4 THEN Rep(" ", 1) \o s
      ELSE s

\* The end-of-thread marker line at the given level.
EndMarker(lvl) ==
  Rep(" ", 4) \o <<"0", "\t">> \o CODE_LINE_SEPARATOR
    \o Rep(FUNCTION_CALL_SEPARATOR, lvl) \o CET_END \o <<"\n">>

\* The test made against the thread id as an int, as it was before str().
ThreadChangedInt(cur, thread) == ~PyEq(cur, IntV(DecInt(thread.val)))

\* The test that the thread of the element differs from the current one.
ThreadChanged(cur, thread) == ~PyEq(cur, thread)

\* Indentation of an assume, assign, note or warn line.
Spaces(lvl, cur) ==
  IF lvl > 0 THEN Rep(" ", lvl) ELSE Rep(" ", DecInt(cur.val))

\* Text of an assume line: the source, negated when the display name is false.
AssumeText(elem) ==
  IF elem.display_name
    THEN elem.op \o <<"(">> \o elem.source \o <<")">>
    ELSE elem.op \o <<"(", "!", "(">> \o elem.source \o <<")", ")">>

\* The text an element adds to the result ("Pretty print."), none for a return.
ElemText(elem, lvl, cur) ==
  LET head == FormatLineNo(elem.line) \o <<"\t">> \o CODE_LINE_SEPARATOR
  IN  IF elem.op = CET_OP_CALL
        THEN head \o Rep(FUNCTION_CALL_SEPARATOR, lvl) \o elem.display_name \o <<"\n">>
      ELSE IF elem.op \in {CET_OP_ASSIGN, CET_OP_ASSUME, CET_OP_NOTE, CET_OP_WARN}
        THEN IF elem.op = CET_OP_ASSUME
               THEN head \o Spaces(lvl, cur) \o AssumeText(elem) \o <<"\n">>
             ELSE IF elem.op = CET_OP_ASSIGN
               THEN head \o Spaces(lvl, cur) \o elem.op \o <<":", " ", "'">>
                      \o elem.source \o <<"'", "\n">>
             ELSE head \o Spaces(lvl, cur) \o elem.op \o <<":", " ", "'">>
                      \o elem.display_name \o <<"'", "\n">>
      ELSE <<>>

\* A return folds when its name is the function on top of the stack.
Folds(name, stk) == name = stk[Len(stk)]

\* for elem in converted_error_trace: elem['thread'] = str(elem['thread'])
StrThreads ==
  /\ pc = "print_str"
  /\ cet' = [k \in DOMAIN cet |-> [cet[k] EXCEPT !.thread = PyStr(@)]]
  /\ print_i' = 1
  /\ pc' = "print_thread"
  /\ UNCHANGED <<cet0, result, level, print_cur_thread, print_stack, error>>
  /\ UNCHANGED parseVars
  /\ UNCHANGED orchVars

\* Head of the loop body: the thread of the element against cur_thread.
PrintThread ==
  /\ pc = "print_thread"
  /\ print_i <= Len(cet)
  /\ LET thread == cet[print_i].thread
     IN  IF PyEq(print_cur_thread, IntV(-1))
           THEN /\ print_cur_thread' = PyStr(thread)
                /\ UNCHANGED <<result, level>>
         ELSE IF ThreadChanged(print_cur_thread, thread)
           THEN /\ print_cur_thread' = PyStr(thread)
                /\ result' = result \o EndMarker(level)
                /\ level' = 0
         ELSE UNCHANGED <<print_cur_thread, result, level>>
  /\ pc' = "print_elem"
  /\ UNCHANGED <<cet0, cet, print_i, print_stack, error>>
  /\ UNCHANGED parseVars
  /\ UNCHANGED orchVars

\* Rest of the loop body: a return pops the stack, the others are printed.
PrintElem ==
  /\ pc = "print_elem"
  /\ LET elem == cet[print_i]
         name == elem.display_name
     IN  IF elem.op = CET_OP_RETURN
           THEN IF print_stack = <<>>
                  THEN \* stack.pop() of an empty list
                       /\ pc' = "print_raised"
                       /\ error' = IndexError
                       /\ UNCHANGED <<print_i, result, level, print_stack>>
                ELSE IF Folds(name, print_stack)
                  THEN /\ level' = level - 1
                       /\ print_stack' = SubSeq(print_stack, 1, Len(print_stack) - 1)
                       /\ result' = result \o ElemText(elem, level - 1, print_cur_thread)
                       /\ print_i' = print_i + 1
                       /\ pc' = "print_thread"
                       /\ UNCHANGED error
                ELSE \* no call for this function: the element is skipped
                     /\ print_i' = print_i + 1
                     /\ pc' = "print_thread"
                     /\ UNCHANGED <<result, level, print_stack, error>>
         ELSE /\ result' = result \o ElemText(elem, level, print_cur_thread)
              /\ level' = IF elem.op = CET_OP_CALL THEN level + 1 ELSE level
              /\ print_stack' =
                   IF elem.op = CET_OP_CALL THEN Append(print_stack, name) ELSE print_stack
              /\ print_i' = print_i + 1
              /\ pc' = "print_thread"
              /\ UNCHANGED error
  /\ UNCHANGED <<cet0, cet, print_cur_thread>>
  /\ UNCHANGED parseVars
  /\ UNCHANGED orchVars

\* After the loop: the final marker, and the result is returned.
PrintEnd ==
  /\ pc = "print_thread"
  /\ print_i > Len(cet)
  /\ result' = result \o EndMarker(level)
  /\ pc' = "printed"
  /\ UNCHANGED <<cet0, cet, print_i, level, print_cur_thread, print_stack, error>>
  /\ UNCHANGED parseVars
  /\ UNCHANGED orchVars

(***************************************************************************)
(* error_trace_pretty_parse                                                *)
(***************************************************************************)
\* First index from i on whose character is not in the class (Len(s) + 1 if
\* none): where a greedy \s*, \d+, " *" or \w+ stops.
Skip(class, s, i) ==
  CHOOSE j \in i..(Len(s) + 1) :
    /\ \A k \in i..(j - 1) : s[k] \in class
    /\ j = Len(s) + 1 \/ s[j] \notin class

\* str.strip()
Strip(s) ==
  LET a == Skip(SpaceChars, s, 1)
      b == CHOOSE j \in 0..Len(s) :
             /\ \A k \in (j + 1)..Len(s) : IsSpace(s[k])
             /\ j = 0 \/ ~IsSpace(s[j])
  IN  IF a > Len(s) THEN <<>> ELSE SubSeq(s, a, b)

\* str.splitlines() of a text whose only line boundary is "\n"
RECURSIVE SplitFrom(_, _)
SplitFrom(t, i) ==
  IF i > Len(t) THEN <<>>
  ELSE LET j == CHOOSE e \in i..(Len(t) + 1) :
                  /\ \A k \in i..(e - 1) : t[k] # "\n"
                  /\ e = Len(t) + 1 \/ t[e] = "\n"
       IN  <<SubSeq(t, i, j - 1)>> \o SplitFrom(t, j + 1)

SplitLines(t) == SplitFrom(t, 1)

NoMatch == [ok |-> FALSE]

\* The common head of the three patterns: ^\s*(\d+)\s*\|( *)
\* ok, group 1, the length of group 2 and the index where the rest starts.
LineHead(l) ==
  LET i0 == Skip(SpaceChars, l, 1)
      i1 == Skip(Digits, l, i0)
      i2 == Skip(SpaceChars, l, i1)
  IN  IF i1 > i0 /\ i2 <= Len(l) /\ <<l[i2]>> = CODE_LINE_SEPARATOR
        THEN LET i3 == Skip({FUNCTION_CALL_SEPARATOR}, l, i2 + 1)
             IN  [ok |-> TRUE, num |-> SubSeq(l, i0, i1 - 1),
                  level |-> i3 - (i2 + 1), rest |-> SubSeq(l, i3, Len(l))]
      ELSE NoMatch

\* ^\s*(\d+)\s*\|( *)(\w+)$
MatchCall(l) ==
  LET h == LineHead(l)
  IN  IF h.ok /\ h.rest # <<>> /\ \A k \in DOMAIN h.rest : IsWord(h.rest[k])
        THEN [ok |-> TRUE, num |-> h.num, level |-> h.level, func |-> h.rest]
      ELSE NoMatch

\* ^\s*(\d+)\s*\|( *)assume\((!?)(.+)\)$
MatchAssume(l) ==
  LET h == LineHead(l)
      key == CET_OP_ASSUME \o <<"(">>
  IN  IF h.ok /\ Len(h.rest) > Len(key) /\ SubSeq(h.rest, 1, Len(key)) = key
             /\ h.rest[Len(h.rest)] = ")"
        THEN LET inner == SubSeq(h.rest, Len(key) + 1, Len(h.rest) - 1)
             IN  IF Len(inner) >= 2 /\ inner[1] = "!"
                   THEN [ok |-> TRUE, num |-> h.num, level |-> h.level,
                         is_false |-> TRUE, assume |-> Tail(inner)]
                 ELSE IF Len(inner) >= 1
                   THEN [ok |-> TRUE, num |-> h.num, level |-> h.level,
                         is_false |-> FALSE, assume |-> inner]
                 ELSE NoMatch
      ELSE NoMatch

\* ^\s*(\d+)\s*\|( *)(\w+): '(.+)'$
MatchGeneric(l) ==
  LET h == LineHead(l)
  IN  IF h.ok
        THEN LET j == Skip(WordChars, h.rest, 1)
                 r == SubSeq(h.rest, j, Len(h.rest))
             IN  IF j > 1 /\ Len(r) >= 5 /\ SubSeq(r, 1, 3) = <<":", " ", "'">>
                      /\ r[Len(r)] = "'"
                   THEN [ok |-> TRUE, num |-> h.num, level |-> h.level,
                         op |-> SubSeq(h.rest, 1, j - 1),
                         text |-> SubSeq(r, 4, Len(r) - 1)]
                 ELSE NoMatch
      ELSE NoMatch

\* The loop body without the unparsed rest: each line stands alone.
JoinLineAlone(np, raw) == Strip(raw)

\* The line the loop body works on: the unparsed rest, if any, before the stripped line.
JoinLine(np, raw) == IF Truthy(np) THEN np \o Strip(raw) ELSE Strip(raw)

\* One return at most for a line that is not deeper than the one before.
OneReturn(lvl, cur) == IF lvl <= cur THEN 1 ELSE 0

\* Number of returns a call or end-marker line at lvl emits after one at cur.
ReturnCount(lvl, cur) ==
  IF lvl = cur THEN 1
  ELSE IF lvl < cur THEN cur - lvl + 1
  ELSE 0

\* The returns appended for the n functions popped from the stack, top first.
Returns(stk, n, thread, num) ==
  [k \in 1..n |-> Element(CET_OP_RETURN, IntV(thread), num, None, stk[Len(stk) - k + 1])]

\* The error of the last statement: Cannot parse line '...' in edited error trace
CannotParse(l) ==
  [type |-> "ValueError",
   msg |-> <<"C", "a", "n", "n", "o", "t", " ", "p", "a", "r", "s", "e", " ",
             "l", "i", "n", "e", " ", "'">> \o l
           \o <<"'", " ", "i", "n", " ", "e", "d", "i", "t", "e", "d", " ",
                "e", "r", "r", "o", "r", " ", "t", "r", "a", "c", "e">>]

\* The parser is called, with the printed trace (compare_edited_traces) or with
\* an edited text, and sets its locals before the loop.
ParseBegin ==
  /\ pc \in {"printed", "edited"}
  /\ text' = IF pc = "printed" THEN result ELSE text
  /\ converted' = <<>>
  /\ cur_thread' = 0
  /\ cur_level' = -1
  /\ stack' = <<>>
  /\ not_parsed' = None
  /\ lines' = SplitLines(text')
  /\ parse_i' = 1
  /\ pc' = "parse_line"
  /\ UNCHANGED <<cet0, line, error>>
  /\ UNCHANGED printVars
  /\ UNCHANGED orchVars

\* One iteration of the loop over the lines.
ParseLine ==
  /\ pc = "parse_line"
  /\ parse_i <= Len(lines)
  /\ LET l == JoinLine(not_parsed, lines[parse_i])
         np == IF Truthy(not_parsed) THEN None ELSE not_parsed
         m1 == MatchCall(l)
         m2 == MatchAssume(l)
         m3 == MatchGeneric(l)
     IN  IF m1.ok
           THEN LET n == ReturnCount(m1.level, cur_level)
                IN  IF n > Len(stack)
                      THEN \* stack.pop() of an empty list
                           /\ pc' = "parse_raised"
                           /\ error' = IndexError
                           /\ UNCHANGED <<converted, cur_thread, cur_level, stack,
                                          parse_i>>
                           /\ not_parsed' = np
                           /\ line' = m1.num
                    ELSE /\ stack' =
                              IF m1.func = CET_END THEN SubSeq(stack, 1, Len(stack) - n)
                              ELSE Append(SubSeq(stack, 1, Len(stack) - n), m1.func)
                         /\ converted' =
                              converted \o Returns(stack, n, cur_thread, m1.num)
                                \o (IF m1.func = CET_END THEN <<>>
                                    ELSE <<Element(CET_OP_CALL, IntV(cur_thread),
                                                   m1.num, None, m1.func)>>)
                         /\ cur_thread' =
                              IF m1.func = CET_END THEN cur_thread + 1 ELSE cur_thread
                         /\ cur_level' = IF m1.func = CET_END THEN -1 ELSE m1.level
                         /\ not_parsed' = np
                         /\ line' = m1.num
                         /\ parse_i' = parse_i + 1
                         /\ UNCHANGED <<pc, error>>
         ELSE IF m2.ok
           THEN /\ converted' =
                     Append(converted,
                            Element(CET_OP_ASSUME, IntV(cur_thread), m2.num,
                                    m2.assume, ~m2.is_false))
                /\ not_parsed' = np
                /\ line' = m2.num
                /\ parse_i' = parse_i + 1
                /\ UNCHANGED <<pc, error, cur_thread, cur_level, stack>>
         ELSE IF m3.ok
           THEN /\ converted' =
                     Append(converted,
                            Element(m3.op, IntV(cur_thread), m3.num, m3.text, m3.text))
                /\ not_parsed' = np
                /\ line' = m3.num
                /\ parse_i' = parse_i + 1
                /\ UNCHANGED <<pc, error, cur_thread, cur_level, stack>>
         ELSE /\ not_parsed' = l
              /\ line' = l
              /\ parse_i' = parse_i + 1
              /\ UNCHANGED <<pc, error, converted, cur_thread, cur_level, stack>>
  /\ UNCHANGED <<cet0, text, lines>>
  /\ UNCHANGED printVars
  /\ UNCHANGED orchVars

\* After the loop: the error for an unparsed rest, or the trace is returned.
ParseEnd ==
  /\ pc = "parse_line"
  /\ parse_i > Len(lines)
  /\ IF Truthy(not_parsed)
       THEN /\ pc' = "parse_error"
            /\ error' = CannotParse(line)
     ELSE /\ pc' = "parsed"
          /\ UNCHANGED error
  /\ UNCHANGED <<cet0>>
  /\ UNCHANGED parseVars
  /\ UNCHANGED printVars
  /\ UNCHANGED orchVars

(***************************************************************************)
(* Conversion arguments: process_args and json.dumps(args, sort_keys=True) *)
(***************************************************************************)
\* The values of a conversion argument: a list of names, a string, a boolean.
ListV(l) == [ty |-> "list", val |-> l]
BoolV(b) == [ty |-> "bool", val |-> b]

\* The args parameter: a dict (a function from the tags present) or None.
DictV(d) == [ty |-> "dict", val |-> d]
NoneV == [ty |-> "None", val |-> <<>>]
EmptyDict == [t \in {} |-> NoneV]

\* The option names of reports.mea.core
TAG_ADDITIONAL_MODEL_FUNCTIONS ==
  <<"a", "d", "d", "i", "t", "i", "o", "n", "a", "l", "_", "m", "o", "d", "e", "l",
    "_", "f", "u", "n", "c", "t", "i", "o", "n", "s">>
TAG_FILTERED_MODEL_FUNCTIONS ==
  <<"f", "i", "l", "t", "e", "r", "e", "d", "_", "m", "o", "d", "e", "l",
    "_", "f", "u", "n", "c", "t", "i", "o", "n", "s">>
TAG_USE_NOTES == <<"u", "s", "e", "_", "n", "o", "t", "e", "s">>
TAG_USE_WARNS == <<"u", "s", "e", "_", "w", "a", "r", "n", "s">>
TAG_IGNORE_NOTES_TEXT ==
  <<"i", "g", "n", "o", "r", "e", "_", "n", "o", "t", "e", "s", "_", "t", "e", "x", "t">>

\* The characters in the order of their code points.
CodeOrder ==
  <<",", "0", "1", "2", "3", "4", "5", "6", "7", "8", "9",
    "A", "B", "C", "D", "E", "F", "G", "H", "I", "J", "K", "L", "M",
    "N", "O", "P", "Q", "R", "S", "T", "U", "V", "W", "X", "Y", "Z", "_",
    "a", "b", "c", "d", "e", "f", "g", "h", "i", "j", "k", "l", "m",
    "n", "o", "p", "q", "r", "s", "t", "u", "v", "w", "x", "y", "z">>

Ord(c) == CHOOSE k \in DOMAIN CodeOrder : CodeOrder[k] = c

\* a < b of two Python strings
RECURSIVE StrLess(_, _)
StrLess(a, b) ==
  IF b = <<>> THEN FALSE
  ELSE IF a = <<>> THEN TRUE
  ELSE IF a[1] = b[1] THEN StrLess(Tail(a), Tail(b))
  ELSE Ord(a[1]) < Ord(b[1])

\* The sorted list with one more string put at its place.
RECURSIVE Insert(_, _)
Insert(x, l) ==
  IF l = <<>> THEN <<x>>
  ELSE IF StrLess(x, Head(l)) THEN <<x>> \o l
  ELSE <<Head(l)>> \o Insert(x, Tail(l))

\* list.sort() of a list of strings
RECURSIVE Sorted(_)
Sorted(l) == IF l = <<>> THEN <<>> ELSE Insert(l[Len(l)], Sorted(SubSeq(l, 1, Len(l) - 1)))

\* str.split(","): the pieces between the commas, the empty ones included
RECURSIVE SplitComma(_, _)
SplitComma(s, cur) ==
  IF s = <<>> THEN <<cur>>
  ELSE IF Head(s) = "," THEN <<cur>> \o SplitComma(Tail(s), <<>>)
  ELSE SplitComma(Tail(s), Append(cur, Head(s)))

\* ",".join(l)
RECURSIVE JoinComma(_)
JoinComma(l) ==
  IF l = <<>> THEN <<>>
  ELSE IF Len(l) = 1 THEN l[1]
  ELSE l[1] \o <<",">> \o JoinComma(Tail(l))

\* Python's truth value of an argument value
TruthyV(v) == IF v.ty = "bool" THEN v.val ELSE v.val # <<>>

\* The tags process_args goes through, in its order.
ProcessedTags ==
  <<TAG_ADDITIONAL_MODEL_FUNCTIONS, TAG_FILTERED_MODEL_FUNCTIONS, TAG_USE_NOTES,
    TAG_USE_WARNS, TAG_IGNORE_NOTES_TEXT>>

\* contents.sort() of a list-valued option
SortContents(l) == ListV(Sorted(l))

\* What process_args stores for a true value of a tag.
Contents(v, as_str) ==
  LET c1 == IF v.ty = "str" THEN ListV(SplitComma(v.val, <<>>)) ELSE v
      c2 == IF c1.ty = "list" THEN SortContents(c1.val) ELSE c1
  IN  IF c2.ty = "list" /\ as_str THEN StrV(JoinComma(c2.val)) ELSE c2

\* process_args(args, as_str): the dict as the call leaves it.
ProcessArgs(d, as_str) ==
  LET drop == {t \in DOMAIN d :
                 (\E k \in DOMAIN ProcessedTags : ProcessedTags[k] = t) /\ ~TruthyV(d[t])}
  IN  [t \in (DOMAIN d) \ drop |->
         IF \E k \in DOMAIN ProcessedTags : ProcessedTags[k] = t
           THEN Contents(d[t], as_str) ELSE d[t]]

\* json.dumps of a string: the characters between double quotes
JsonStr(s) == <<"\"">> \o s \o <<"\"">>

RECURSIVE JsonItems(_)
JsonItems(l) ==
  IF l = <<>> THEN <<>>
  ELSE IF Len(l) = 1 THEN JsonStr(l[1])
  ELSE JsonStr(l[1]) \o <<",", " ">> \o JsonItems(Tail(l))

\* json.dumps of an argument value
JsonValue(v) ==
  IF v.ty = "list" THEN <<"[">> \o JsonItems(v.val) \o <<"]">>
  ELSE IF v.ty = "str" THEN JsonStr(v.val)
  ELSE IF v.val THEN <<"t", "r", "u", "e">>
  ELSE <<"f", "a", "l", "s", "e">>

\* The keys of the dict in ascending order (sort_keys=True)
RECURSIVE SortedKeys(_)
SortedKeys(keys) ==
  IF keys = {} THEN <<>>
  ELSE LET least == CHOOSE k \in keys : \A m \in keys \ {k} : StrLess(k, m)
       IN  <<least>> \o SortedKeys(keys \ {least})

RECURSIVE JsonPairs(_, _)
JsonPairs(d, keys) ==
  IF keys = <<>> THEN <<>>
  ELSE LET pair == JsonStr(keys[1]) \o <<":", " ">> \o JsonValue(d[keys[1]])
       IN  IF Len(keys) = 1 THEN pair
           ELSE pair \o <<",", " ">> \o JsonPairs(d, Tail(keys))

\* json.dumps(args, sort_keys=True)
JsonDumps(d) == <<"{">> \o JsonPairs(d, SortedKeys(DOMAIN d)) \o <<"}">>

(***************************************************************************)
(* get_or_convert_error_trace                                              *)
(***************************************************************************)
\* The callers that may be inside get_or_convert_error_trace at the same time.
Procs == {1, 2}

\* Largest number of get_or_convert_error_trace calls of one behaviour.
MaxCalls == 2

DISABLE_CACHE == FALSE

\* The conversion functions of reports.mea.core that are asked for here.
CONVERSION_FUNCTION_MODEL_FUNCTIONS == "model functions"
CONVERSION_FUNCTION_CALL_TREE == "call tree"
DEFAULT_CONVERSION_FUNCTION == CONVERSION_FUNCTION_MODEL_FUNCTIONS

\* The one unsafe report of the model, and the absence of a report.
TheReport == "report 1"
NoReport == "None"

\* What is passed as unsafe: a ReportUnsafe, a MarkUnsafe with its report (or
\* None) and the report MarkUnsafeReport links it to (or none), or another object.
Unsafe(kind, report, linked) == [kind |-> kind, report |-> report, linked |-> linked]

\* A converted error trace as a Python list, and as the JSON text of that list.
TraceList(t) == [ty |-> "list", val |-> t]
TraceText(t) == [ty |-> "str", val |-> t]
NoTrace == [ty |-> "None", val |-> <<>>]

\* The archive of a report whose raw trace is malformed for a conversion.
Malformed == [ty |-> "malformed", val |-> <<>>]

\* The frame of a caller that is not inside the function.
IdleFrame ==
  [pc |-> "idle", unsafe |-> Unsafe("other", NoReport, NoReport),
   conversion_function |-> DEFAULT_CONVERSION_FUNCTION,
   args |-> NoneV, caller_args |-> NoneV, args_str |-> <<>>,
   report_unsafe |-> NoReport, converted_error_trace |-> NoTrace, error |-> "none"]

\* The key with the string of no arguments.
KeyWithoutArgs(f) == <<f.report_unsafe, f.conversion_function, JsonDumps(EmptyDict)>>

\* The key of the cache row the call looks for and creates.
Key(f) == <<f.report_unsafe, f.conversion_function, f.args_str>>

\* ErrorTraceConvertionCache.objects.filter(unsafe, function, args): the rows of a key
Filter(rows, key) ==
  SelectSeq(rows, LAMBDA r : <<r.unsafe, r.function, r.args>> = key)

\* convert_error_trace of reports.mea.core on the archive of the report: the
\* same trace for the same inputs, an error for a malformed raw trace.
ConvertErrorTrace(raw, conversion_function) == raw[conversion_function]

\* dump_converted_error_trace: the file with the JSON text of the trace
DumpConvertedErrorTrace(t) == TraceText(t.val)

\* Events of the log
Event(ev, p, f) == [ev |-> ev, p |-> p, key |-> Key(f)]

\* The entries of the log that are calls.
CallCount == Len(SelectSeq(log, LAMBDA e : e.ev = "call"))

\* The frame and the log as a call of the function begins.
StartCall(p, u, fn, a) ==
  /\ goc' = [goc EXCEPT ![p] =
               [IdleFrame EXCEPT !.pc = "type", !.unsafe = u,
                                 !.conversion_function = fn,
                                 !.args = a, !.caller_args = a]]
  /\ log' = Append(log, [ev |-> "call", p |-> p, unsafe |-> u,
                          conversion_function |-> fn, args |-> a,
                          cache |-> cache])

\* A caller calls get_or_convert_error_trace(unsafe, conversion_function, args).
GocCall(p, unsafes, functions, argss) ==
  /\ goc[p].pc \in {"idle", "returned", "raised"}
  /\ \E u \in unsafes, fn \in functions, a \in argss : StartCall(p, u, fn, a)
  /\ UNCHANGED <<cache, archive, auto>>
  /\ UNCHANGED <<pc, cet0, error>>
  /\ UNCHANGED printVars
  /\ UNCHANGED parseVars

\* Every object is taken for a report or a mark.
AnyType(unsafe) == TRUE

\* The unsafe is of a type the function knows.
KnownType(unsafe) == unsafe.kind \in {"ReportUnsafe", "MarkUnsafe"}

\* Lines 82-96: the report of the unsafe, or the error for an unknown type or
\* for a mark with no report.
GocType(p) ==
  /\ goc[p].pc = "type"
  /\ LET f == goc[p]
         report ==
           IF f.unsafe.kind = "ReportUnsafe" \/ f.unsafe.report # NoReport
             THEN f.unsafe.report
           ELSE f.unsafe.linked
     IN  IF ~KnownType(f.unsafe)
           THEN goc' = [goc EXCEPT ![p].pc = "raised",
                                   ![p].error = "BridgeException: Unknown type of unsafe"]
         ELSE IF report = NoReport
           THEN goc' = [goc EXCEPT ![p].pc = "raised",
                                   ![p].error = "BridgeException: There is no unsafe report"]
         ELSE goc' = [goc EXCEPT ![p].pc = "args",
                                 ![p].report_unsafe = report,
                                 ![p].unsafe.report = report]
  /\ UNCHANGED <<cache, archive, log, auto>>
  /\ UNCHANGED <<pc, cet0, error>>
  /\ UNCHANGED printVars
  /\ UNCHANGED parseVars

\* Python's truth value of the args parameter
TruthyArgs(a) == a.ty = "dict" /\ DOMAIN a.val # {}

\* Lines 97-101: an empty dict for no args, process_args on the dict (the
\* caller's own, when it is not empty) and the key string.
GocArgs(p) ==
  /\ goc[p].pc = "args"
  /\ LET f == goc[p]
         processed == IF TruthyArgs(f.args) THEN DictV(ProcessArgs(f.args.val, FALSE))
                      ELSE DictV(EmptyDict)
     IN  goc' = [goc EXCEPT ![p].pc = "lookup",
                            ![p].args = processed,
                            ![p].caller_args =
                               IF TruthyArgs(f.args) THEN processed ELSE f.caller_args,
                            ![p].args_str = JsonDumps(processed.val)]
  /\ UNCHANGED <<cache, archive, log, auto>>
  /\ UNCHANGED <<pc, cet0, error>>
  /\ UNCHANGED printVars
  /\ UNCHANGED parseVars

\* Lines 108-113: the text of the last row of the key is returned; with no such
\* row, or with the cache disabled, the trace is to be converted.
GocLookup(p) ==
  /\ goc[p].pc = "lookup"
  /\ LET f == goc[p]
         rows == Filter(cache, Key(f))
     IN  IF DISABLE_CACHE
           THEN /\ goc' = [goc EXCEPT ![p].pc = "convert"]
                /\ UNCHANGED log
         ELSE IF rows = <<>>
           THEN /\ goc' = [goc EXCEPT ![p].pc = "convert"]
                /\ log' = Append(log, Event("miss", p, f))
         ELSE /\ goc' = [goc EXCEPT ![p].pc = "returned",
                                    ![p].converted_error_trace =
                                       rows[Len(rows)].converted]
              /\ log' = Append(log, Event("hit", p, f))
  /\ UNCHANGED <<cache, archive, auto>>
  /\ UNCHANGED <<pc, cet0, error>>
  /\ UNCHANGED printVars
  /\ UNCHANGED parseVars

\* Lines 103-106, 116 and 121: the archive is read and the trace converted; an
\* error of the conversion leaves the function.
GocConvert(p) ==
  /\ goc[p].pc = "convert"
  /\ LET f == goc[p]
         t == ConvertErrorTrace(archive, f.conversion_function)
     IN  IF t = Malformed
           THEN /\ goc' = [goc EXCEPT ![p].pc = "raised",
                                      ![p].error = "conversion failure"]
                /\ log' = Append(log, Event("read", p, f))
         ELSE /\ goc' = [goc EXCEPT ![p].pc = IF DISABLE_CACHE THEN "returned" ELSE "store",
                                    ![p].converted_error_trace = t]
              /\ log' = log \o <<Event("read", p, f), Event("convert", p, f)>>
  /\ UNCHANGED <<cache, archive, auto>>
  /\ UNCHANGED <<pc, cet0, error>>
  /\ UNCHANGED printVars
  /\ UNCHANGED parseVars

\* Lines 117-119 and 122: the trace is dumped, a row is created for the key and
\* the trace is returned.
GocStore(p) ==
  /\ goc[p].pc = "store"
  /\ LET f == goc[p]
     IN  /\ cache' = Append(cache,
                            [unsafe |-> f.report_unsafe, function |-> f.conversion_function,
                             converted |-> DumpConvertedErrorTrace(f.converted_error_trace),
                             args |-> f.args_str])
         /\ log' = Append(log, Event("store", p, f))
  /\ goc' = [goc EXCEPT ![p].pc = "returned"]
  /\ UNCHANGED <<archive, auto>>
  /\ UNCHANGED <<pc, cet0, error>>
  /\ UNCHANGED printVars
  /\ UNCHANGED parseVars

(***************************************************************************)
(* automatic_error_trace_editing                                           *)
(***************************************************************************)
\* The comparison functions of reports.mea.core that are chosen here.
DEFAULT_COMPARISON_FUNCTION == "equal"
COMPARISON_FUNCTION_INCLUDE_PARTIAL_ORDERED == "include partial ordered"

\* args = {TAG_IGNORE_NOTES_TEXT: True}
IgnoreNotesText == DictV([t \in {TAG_IGNORE_NOTES_TEXT} |-> BoolV(TRUE)])

\* The conversion functions the last loop goes through, in its order.
TriedFunctions == <<CONVERSION_FUNCTION_MODEL_FUNCTIONS, CONVERSION_FUNCTION_CALL_TREE>>

\* __load_json: the list a JSON text stands for, a list as it is
LoadJson(et) == IF et.ty = "str" THEN TraceList(et.val) ELSE et

\* The frame of automatic_error_trace_editing before a call.
IdleAuto ==
  [pc |-> "idle", conversion_function |-> DEFAULT_CONVERSION_FUNCTION,
   args |-> IgnoreNotesText, converted_error_trace |-> <<>>,
   visual0 |-> <<>>, visual_error_trace |-> <<>>,
   comparison_function |-> DEFAULT_COMPARISON_FUNCTION,
   is_note_changed |-> FALSE, edited_error_trace |-> <<>>,
   i |-> 0, cv |-> 0, verdicts |-> <<>>, is_equal |-> FALSE]

\* The report the function is called for.
UnsafeReport == Unsafe("ReportUnsafe", TheReport, NoReport)

\* Lines 126-128: the locals, and the call for the base trace.
AutoBegin ==
  /\ auto.pc = "idle"
  /\ goc[1].pc = "idle"
  /\ auto' = [IdleAuto EXCEPT !.pc = "base"]
  /\ StartCall(1, UnsafeReport, DEFAULT_CONVERSION_FUNCTION, IgnoreNotesText)
  /\ UNCHANGED <<cache, archive>>
  /\ UNCHANGED <<pc, cet0, error>>
  /\ UNCHANGED printVars
  /\ UNCHANGED parseVars

\* An error of get_or_convert_error_trace leaves the function.
AutoRaise ==
  /\ auto.pc \in {"base", "converted"}
  /\ goc[1].pc = "raised"
  /\ auto' = [auto EXCEPT !.pc = "raised"]
  /\ UNCHANGED <<goc, cache, archive, log>>
  /\ UNCHANGED <<pc, cet0, error>>
  /\ UNCHANGED printVars
  /\ UNCHANGED parseVars

\* Lines 128-137: the base trace is loaded, the visual trace converted and the
\* comparison function chosen.
AutoVisual(visuals) ==
  /\ auto.pc = "base"
  /\ goc[1].pc = "returned"
  /\ \E v \in visuals :
       LET base == LoadJson(goc[1].converted_error_trace).val
       IN  auto' = [auto EXCEPT
                      !.pc = "notes",
                      !.args = goc[1].caller_args,
                      !.converted_error_trace = base,
                      !.visual0 = v,
                      !.visual_error_trace = v,
                      !.comparison_function =
                         IF v = base THEN DEFAULT_COMPARISON_FUNCTION
                         ELSE COMPARISON_FUNCTION_INCLUDE_PARTIAL_ORDERED,
                      !.is_note_changed = FALSE,
                      !.edited_error_trace = <<>>,
                      !.i = 1]
  /\ UNCHANGED <<goc, cache, archive, log>>
  /\ UNCHANGED <<pc, cet0, error>>
  /\ UNCHANGED printVars
  /\ UNCHANGED parseVars

\* Lines 142-147 with the test of the id left out: the text of the first note
\* of the base trace.
BasicNoteOfAnyId(base, elem_id) ==
  LET notes == {k \in DOMAIN base : base[k].op = CET_OP_NOTE}
  IN  IF notes = {} THEN None
      ELSE base[CHOOSE k \in notes : \A m \in notes : k <= m].display_name

\* Lines 142-147: the text of the first element of the base trace with the id,
\* if that element is a note, None otherwise.
BasicNote(base, elem_id) ==
  LET same == {k \in DOMAIN base : base[k].id = elem_id}
  IN  IF same = {} THEN None
      ELSE LET basic_elem == base[CHOOSE k \in same : \A m \in same : k <= m]
           IN  IF basic_elem.op = CET_OP_NOTE THEN basic_elem.display_name ELSE None

\* Lines 138-160: one element of the visual trace.
AutoNote ==
  /\ auto.pc = "notes"
  /\ auto.i <= Len(auto.visual_error_trace)
  /\ LET elem == auto.visual_error_trace[auto.i]
         edited_note == elem.display_name
         basic_note == BasicNote(auto.converted_error_trace, elem.id)
         renamed == [elem EXCEPT !.display_name = basic_note]
     IN  IF elem.op = CET_OP_NOTE
           THEN IF edited_note # basic_note
                  THEN IF Truthy(basic_note)
                         THEN auto' = [auto EXCEPT
                                         !.is_note_changed = TRUE,
                                         !.visual_error_trace[auto.i] = renamed,
                                         !.edited_error_trace = Append(@, renamed),
                                         !.i = @ + 1]
                       ELSE auto' = [auto EXCEPT !.i = @ + 1]
                ELSE auto' = [auto EXCEPT
                                !.is_note_changed = TRUE,
                                !.edited_error_trace = Append(@, elem),
                                !.i = @ + 1]
         ELSE auto' = [auto EXCEPT
                         !.edited_error_trace = Append(@, elem),
                         !.i = @ + 1]
  /\ UNCHANGED <<goc, cache, archive, log>>
  /\ UNCHANGED <<pc, cet0, error>>
  /\ UNCHANGED printVars
  /\ UNCHANGED parseVars

\* Lines 161-162: no note has been kept, the arguments are empty.
AutoArgs ==
  /\ auto.pc = "notes"
  /\ auto.i > Len(auto.visual_error_trace)
  /\ auto' = [auto EXCEPT
                !.pc = "try",
                !.args = IF ~auto.is_note_changed THEN DictV(EmptyDict) ELSE @,
                !.cv = 1]
  /\ UNCHANGED <<goc, cache, archive, log>>
  /\ UNCHANGED <<pc, cet0, error>>
  /\ UNCHANGED printVars
  /\ UNCHANGED parseVars

\* Lines 164-165: the call for the trace of the next conversion function.
AutoConvert ==
  /\ auto.pc = "try"
  /\ auto.cv <= Len(TriedFunctions)
  /\ auto' = [auto EXCEPT !.pc = "converted"]
  /\ StartCall(1, UnsafeReport, TriedFunctions[auto.cv], auto.args)
  /\ UNCHANGED <<cache, archive>>
  /\ UNCHANGED <<pc, cet0, error>>
  /\ UNCHANGED printVars
  /\ UNCHANGED parseVars

\* The comparison goes on after a match.
NeverBreak(is_equal) == FALSE

\* Line 168-170: the loop is left at a match.
Break(is_equal) == is_equal

\* Lines 165-170: the trace is compared with the edited trace; the verdict of
\* compare_edited_traces is equal, different or an error of the comparison.
AutoCompare ==
  /\ auto.pc = "converted"
  /\ goc[1].pc = "returned"
  /\ \E verdict \in {"equal", "different", "error"} :
       LET cv == TriedFunctions[auto.cv]
           seen == Append(auto.verdicts, [cv |-> cv, verdict |-> verdict])
           is_equal == verdict = "equal"
       IN  IF verdict = "error"
             THEN auto' = [auto EXCEPT !.pc = "raised", !.verdicts = seen]
           ELSE auto' = [auto EXCEPT
                           !.pc = IF Break(is_equal) \/ auto.cv = Len(TriedFunctions)
                                    THEN "returned" ELSE "try",
                           !.args = goc[1].caller_args,
                           !.converted_error_trace =
                              LoadJson(goc[1].converted_error_trace).val,
                           !.verdicts = seen,
                           !.is_equal = is_equal,
                           !.conversion_function = IF is_equal THEN cv ELSE @,
                           !.cv = IF Break(is_equal) THEN @ ELSE @ + 1]
  /\ UNCHANGED <<goc, cache, archive, log>>
  /\ UNCHANGED <<pc, cet0, error>>
  /\ UNCHANGED printVars
  /\ UNCHANGED parseVars

(***************************************************************************)
(* Inputs and specifications                                               *)
(***************************************************************************)
Names == {<<"f">>, <<"g">>}
Threads == {0, 1}
LineNos == {7}
Sources == {<<"x">>}
Texts == {<<"n">>}

\* Elements of the traces handed to the printer: the thread is an int, as the
\* parser produces it; a call or a return has no source.  Calls and returns
\* come in every thread, an assume and an assign in thread 0, a note and a
\* warn in thread 1.
Elements ==
  {Element(op, IntV(t), n, None, f) :
     op \in {CET_OP_CALL, CET_OP_RETURN}, t \in Threads, n \in LineNos, f \in Names}
  \cup
  {Element(CET_OP_ASSUME, IntV(0), n, x, b) :
     n \in LineNos, x \in Sources, b \in BOOLEAN}
  \cup
  {Element(CET_OP_ASSIGN, IntV(0), n, x, x) : n \in LineNos, x \in Sources}
  \cup
  {Element(op, IntV(1), n, x, x) :
     op \in {CET_OP_NOTE, CET_OP_WARN}, n \in LineNos, x \in Texts}

Traces == UNION {[1..n -> Elements] : n \in 0..MaxLen}

\* A line as a user types it: number, separator, indentation, body.
EditLine(num, indent, body) ==
  num \o CODE_LINE_SEPARATOR \o Rep(FUNCTION_CALL_SEPARATOR, indent) \o body

\* Lines of the edited texts handed to the parser alone: calls at three depths,
\* end markers at two, a blank line, a note whose quote is left open, and a
\* line of the generic shape with an operation name that is no operation.
EditLines ==
  {EditLine(<<"1">>, 0, <<"f">>), EditLine(<<"2">>, 1, <<"g">>),
   EditLine(<<"3">>, 2, <<"h">>),
   EditLine(<<"0">>, 0, CET_END), EditLine(<<"0">>, 1, CET_END),
   <<>>,
   EditLine(<<"6">>, 0, CET_OP_NOTE \o <<":", " ", "'", "a">>),
   EditLine(<<"5">>, 0, <<"f", "o", "o", ":", " ", "'", "b", "'">>)}

RECURSIVE JoinLines(_)
JoinLines(ls) ==
  IF ls = <<>> THEN <<>> ELSE Head(ls) \o <<"\n">> \o JoinLines(Tail(ls))

EditedTexts == {JoinLines(ls) : ls \in UNION {[1..n -> EditLines] : n \in 0..MaxLines}}

InitLocals ==
  /\ print_i = 0
  /\ result = <<>>
  /\ level = 0
  /\ print_cur_thread = IntV(-1)
  /\ print_stack = <<>>
  /\ lines = <<>>
  /\ parse_i = 0
  /\ converted = <<>>
  /\ cur_thread = 0
  /\ cur_level = -1
  /\ stack = <<>>
  /\ not_parsed = None
  /\ line = None
  /\ error = NoError

\* An element of a converted error trace as the converter numbers it.
WithId(e, id) == [e EXCEPT !.id = id]

\* The model-functions trace and the call-tree trace of the report's archive.
GoodArchive ==
  [fn \in {CONVERSION_FUNCTION_MODEL_FUNCTIONS, CONVERSION_FUNCTION_CALL_TREE} |->
     IF fn = CONVERSION_FUNCTION_CALL_TREE
       THEN TraceList(<<WithId(Element(CET_OP_CALL, IntV(0), 7, None, <<"f">>), 1),
                        WithId(Element(CET_OP_RETURN, IntV(0), 7, None, <<"f">>), 2)>>)
     ELSE TraceList(<<WithId(Element(CET_OP_CALL, IntV(0), 7, None, <<"f">>), 1)>>)]

\* An archive whose raw trace the call-tree conversion cannot convert.
BadArchive == [GoodArchive EXCEPT ![CONVERSION_FUNCTION_CALL_TREE] = Malformed]

\* Nobody is inside the functions that work with the cache.
OrchIdle ==
  /\ goc = [p \in Procs |-> IdleFrame]
  /\ cache = <<>>
  /\ log = <<>>
  /\ auto = IdleAuto

\* A trace is printed and the printed text is parsed.
Init ==
  /\ pc = "print_str"
  /\ cet0 \in Traces
  /\ cet = cet0
  /\ text = <<>>
  /\ InitLocals
  /\ OrchIdle
  /\ archive = GoodArchive

Next ==
  \/ StrThreads
  \/ PrintThread
  \/ PrintElem
  \/ PrintEnd
  \/ ParseBegin
  \/ ParseLine
  \/ ParseEnd

Spec == Init /\ [][Next]_vars

\* An edited text is parsed.
InitEdit ==
  /\ pc = "edited"
  /\ cet0 = <<>>
  /\ cet = <<>>
  /\ text \in EditedTexts
  /\ InitLocals
  /\ OrchIdle
  /\ archive = GoodArchive

NextEdit ==
  \/ ParseBegin
  \/ ParseLine
  \/ ParseEnd

SpecEdit == InitEdit /\ [][NextEdit]_vars

\* Longest list of names in an option of the arguments.
MaxNames == 2

\* The lists of names and the comma-separated strings of names.
NameLists == UNION {[1..n -> Names] : n \in 0..MaxNames}
NameStrings == {JoinComma(l) : l \in NameLists}

\* The argument mappings of the callers: the additional model functions as a
\* list or as a string or absent, with or without the use of notes, as one
\* enumerated set.
ArgsPool ==
  {a : a \in
     {NoneV} \cup
     {DictV(d) :
        d \in UNION {[tags -> {BoolV(TRUE)}] : tags \in SUBSET {TAG_USE_NOTES}}}
     \cup
     {DictV([t \in {TAG_ADDITIONAL_MODEL_FUNCTIONS} \cup DOMAIN d |->
               IF t = TAG_ADDITIONAL_MODEL_FUNCTIONS THEN v ELSE d[t]]) :
        v \in {ListV(l) : l \in NameLists} \cup {StrV(x) : x \in NameStrings},
        d \in UNION {[tags -> {BoolV(TRUE)}] : tags \in SUBSET {TAG_USE_NOTES}}}}

\* The print and parse machine does not run.
NoPrintParse ==
  /\ pc = "none"
  /\ cet0 = <<>>
  /\ cet = <<>>
  /\ text = <<>>
  /\ InitLocals

\* Two callers, each with one call for the same report and conversion function
\* and with arguments of its own, may be inside the function at the same time.
InitConc ==
  /\ NoPrintParse
  /\ OrchIdle
  /\ archive = GoodArchive

ConcCall(p) ==
  /\ goc[p].pc = "idle"
  /\ GocCall(p, {Unsafe("ReportUnsafe", TheReport, NoReport)},
             {CONVERSION_FUNCTION_MODEL_FUNCTIONS}, ArgsPool)

GocStep(p) ==
  \/ GocType(p)
  \/ GocArgs(p)
  \/ GocLookup(p)
  \/ GocConvert(p)
  \/ GocStore(p)

NextConc == \E p \in Procs : ConcCall(p) \/ GocStep(p)

SpecConc == InitConc /\ [][NextConc]_vars

\* What the callers pass as unsafe: the report, a mark of the report, a mark
\* that MarkUnsafeReport links to the report, a mark with no report at all, and
\* two objects of other types, one of them with a report attribute.
Unsafes ==
  {Unsafe("ReportUnsafe", TheReport, NoReport),
   Unsafe("MarkUnsafe", TheReport, NoReport),
   Unsafe("MarkUnsafe", NoReport, TheReport),
   Unsafe("MarkUnsafe", NoReport, NoReport),
   Unsafe("other", NoReport, NoReport),
   Unsafe("other", TheReport, NoReport)}

\* The arguments of the callers of the sequential specification: none, and the
\* same two names as a string in descending order and as a sorted list.
SeqArgs ==
  {NoneV,
   DictV([t \in {TAG_ADDITIONAL_MODEL_FUNCTIONS} |-> StrV(<<"g", ",", "f">>)]),
   DictV([t \in {TAG_ADDITIONAL_MODEL_FUNCTIONS} |-> ListV(<<<<"f">>, <<"g">>>>)])}

\* One caller calls the function again and again, each call after the one before
\* has ended; the archive of the report is well-formed or not.
InitCache ==
  /\ NoPrintParse
  /\ OrchIdle
  /\ archive \in {GoodArchive, BadArchive}

SeqCall(p) ==
  /\ CallCount < MaxCalls
  /\ GocCall(p, Unsafes,
             {CONVERSION_FUNCTION_MODEL_FUNCTIONS, CONVERSION_FUNCTION_CALL_TREE}, SeqArgs)

NextCache == SeqCall(1) \/ GocStep(1)

SpecCache == InitCache /\ [][NextCache]_vars

\* Longest visual error trace of the report.
MaxVisual == 2

\* The elements of the base and of the visual traces: notes with two ids and
\* two texts, and calls with the same ids.
NoteElements ==
  {WithId(Element(CET_OP_NOTE, IntV(0), 7, x, x), id) :
     x \in {<<"n">>, <<"m">>}, id \in {1, 2}}
  \cup {WithId(Element(CET_OP_CALL, IntV(0), 7, None, <<"f">>), id) : id \in {1, 2}}

\* The traces the default conversion yields for the archive of the report.
BaseTraces == UNION {[1..n -> NoteElements] : n \in 0..2}

\* The traces the default conversion yields for the visual content of the
\* report, as one enumerated set.
VisualTraces == {v : v \in UNION {[1..n -> NoteElements] : n \in 0..MaxVisual}}

\* automatic_error_trace_editing is called for a report whose archive holds
\* some base trace; the cache is empty.
InitAuto ==
  /\ NoPrintParse
  /\ OrchIdle
  /\ archive \in {[GoodArchive EXCEPT ![DEFAULT_CONVERSION_FUNCTION] = TraceList(t)] :
                    t \in BaseTraces}
                 \cup {BadArchive, [fn \in DOMAIN GoodArchive |-> Malformed]}

NextAuto ==
  \/ AutoBegin
  \/ AutoRaise
  \/ AutoVisual(VisualTraces)
  \/ AutoNote
  \/ AutoArgs
  \/ AutoConvert
  \/ AutoCompare
  \/ GocStep(1)

SpecAuto == InitAuto /\ [][NextAuto]_vars

\* Longest trace of the calls and returns of one thread.
MaxNest == 5

\* The calls and the returns of the main thread.
NestElements ==
  {Element(op, IntV(0), n, None, f) :
     op \in {CET_OP_CALL, CET_OP_RETURN}, n \in LineNos, f \in Names}

NestTraces == UNION {[1..n -> NestElements] : n \in 0..MaxNest}

\* A trace of calls and returns of the main thread is printed and parsed back.
InitNest ==
  /\ pc = "print_str"
  /\ cet0 \in NestTraces
  /\ cet = cet0
  /\ text = <<>>
  /\ InitLocals
  /\ OrchIdle
  /\ archive = GoodArchive

SpecNest == InitNest /\ [][Next]_vars

\* Longest trace of the calls and returns of several threads.
MaxCallLen == 4

\* The names of the called functions: a C identifier, and the identifier the
\* end marker is written with.
CallNames == {<<"f">>, CET_END}

\* The calls and the returns of two threads.
CallElements ==
  {Element(op, IntV(t), n, None, f) :
     op \in {CET_OP_CALL, CET_OP_RETURN}, t \in Threads, n \in LineNos, f \in CallNames}

CallTraces == UNION {[1..n -> CallElements] : n \in 0..MaxCallLen}

\* A trace of calls and returns is printed and parsed back.
InitCalls ==
  /\ pc = "print_str"
  /\ cet0 \in CallTraces
  /\ cet = cet0
  /\ text = <<>>
  /\ InitLocals
  /\ OrchIdle
  /\ archive = GoodArchive

SpecCalls == InitCalls /\ [][Next]_vars

(***************************************************************************)
(* Notions the claims are stated in                                        *)
(***************************************************************************)
Last(s) == s[Len(s)]

\* The calls of thread t that are open after the trace s: a call opens, a return
\* of the same thread naming the most recent open call closes it.
RECURSIVE OpenCalls(_, _)
OpenCalls(s, t) ==
  IF s = <<>> THEN <<>>
  ELSE LET before == OpenCalls(SubSeq(s, 1, Len(s) - 1), t)
           e == Last(s)
       IN  IF e.thread # t THEN before
           ELSE IF e.op = CET_OP_CALL THEN Append(before, e.display_name)
           ELSE IF e.op = CET_OP_RETURN /\ before # <<>> /\ Last(before) = e.display_name
             THEN SubSeq(before, 1, Len(before) - 1)
           ELSE before

\* Each return names the most recent open call of its own thread.
Normalized(s) ==
  \A i \in DOMAIN s :
    s[i].op = CET_OP_RETURN =>
      LET open == OpenCalls(SubSeq(s, 1, i - 1), s[i].thread)
      IN  open # <<>> /\ Last(open) = s[i].display_name

\* Equality on the comparable fields: op, thread, display_name and source.
ComparableEq(a, b) ==
  /\ a.op = b.op
  /\ a.thread = b.thread
  /\ a.display_name = b.display_name
  /\ a.source = b.source

\* The printer or the parser has ended with an exception.
Raised == pc \in {"print_raised", "parse_raised", "parse_error"}

\* C1: for every normalized sequence s, parse(print(s)) is returned, has the
\* length of s and equals s position by position on op, thread, display_name
\* and source.
C1_RoundTrip ==
  Normalized(cet0) =>
    /\ ~Raised
    /\ pc = "parsed" =>
         /\ Len(converted) = Len(cet0)
         /\ \A i \in DOMAIN cet0 : ComparableEq(converted[i], cet0[i])

\* C10: the printer does not modify the sequence passed to it: every field of
\* every element has the value and the type it had before the call.
C10_InputUnchanged == cet = cet0

\* The element the printer's loop body is working on is a return.
AtReturn == pc = "print_elem" /\ cet[print_i].op = CET_OP_RETURN

\* C3: a return with no matching call (another name than the last open call, or
\* no open call at all) never aborts printing: it adds no line, leaves the
\* depth unchanged, and the printer goes on to the next element.
C3_UnmatchedReturnSkipped ==
  [][(AtReturn /\ (print_stack = <<>> \/ Last(print_stack) # cet[print_i].display_name))
       => /\ pc' = "print_thread"
          /\ print_i' = print_i + 1
          /\ result' = result
          /\ level' = level]_vars

\* C5: a return is folded (no line, depth decremented) only when its name is the
\* most recent unreturned call of its own thread.
C5_FoldOwnThread ==
  [][(AtReturn /\ level' = level - 1)
       => LET open == OpenCalls(SubSeq(cet, 1, print_i - 1), cet[print_i].thread)
          IN  open # <<>> /\ Last(open) = cet[print_i].display_name]_vars

\* The call line of an element at the given depth.
CallLineAt(elem, depth) ==
  FormatLineNo(elem.line) \o <<"\t">> \o CODE_LINE_SEPARATOR
    \o Rep(FUNCTION_CALL_SEPARATOR, depth) \o elem.display_name \o <<"\n">>

\* C6: every call line is indented by the number of calls of the same thread
\* that are open at that point, also when threads are interleaved.
C6_CallIndent ==
  [][(pc = "print_elem" /\ cet[print_i].op = CET_OP_CALL)
       => result' =
            result \o CallLineAt(cet[print_i],
                                 Len(OpenCalls(SubSeq(cet, 1, print_i - 1),
                                               cet[print_i].thread)))]_vars

IsAssume(e) == e.op = CET_OP_ASSUME

\* C9: print-then-parse preserves the truth value and the source text of every
\* assume element.
C9_AssumePreserved ==
  pc = "parsed" =>
    LET a == SelectSeq(cet0, IsAssume)
        b == SelectSeq(converted, IsAssume)
    IN  /\ Len(b) = Len(a)
        /\ \A i \in DOMAIN a :
             /\ b[i].display_name = a[i].display_name
             /\ b[i].source = a[i].source

\* A line of a text is an end-marker line: number, separator, indentation, __ERROR__.
IsMarker(l) ==
  LET h == LineHead(Strip(l))
  IN  h.ok /\ h.rest = CET_END

\* The line of the text t that ends at the line feed at index j.
LineEndingAt(t, j) ==
  LET before == {k \in 1..(j - 1) : t[k] = "\n"}
      start == IF before = {} THEN 1
               ELSE 1 + CHOOSE k \in before : \A m \in before : m <= k
  IN  SubSeq(t, start, j - 1)

\* The indices of the line feeds that end an end-marker line of the text t.
MarkerEnds(t) ==
  {j \in DOMAIN t : t[j] = "\n" /\ IsMarker(LineEndingAt(t, j))}

MarkerCount(t) == Cardinality(MarkerEnds(t))

\* Number of pairs of consecutive elements whose thread ids differ.
ThreadChanges(s) ==
  Cardinality({k \in 2..Len(s) : s[k].thread # s[k - 1].thread})

\* C7: the printed text holds one end-marker line for each pair of consecutive
\* elements whose thread ids differ, placed before the line of the second
\* element (also when that element is a return that is dropped or folded), and
\* one more as its last line; the depth is 0 after each thread-change marker.
C7_Markers ==
  /\ pc = "printed" =>
       /\ MarkerCount(result) = ThreadChanges(cet0) + 1
       /\ Len(result) \in MarkerEnds(result)
  /\ pc = "print_thread" =>
       MarkerCount(result) = ThreadChanges(SubSeq(cet0, 1, print_i - 1))
  /\ pc = "print_elem" =>
       /\ MarkerCount(result) = ThreadChanges(SubSeq(cet0, 1, print_i))
       /\ (print_i > 1 /\ cet0[print_i].thread # cet0[print_i - 1].thread) =>
            /\ level = 0
            /\ Len(result) \in MarkerEnds(result)

\* A trace with two thread changes, the second element a return of the new
\* thread (dropped or folded), has been printed.
C7_Witness ==
  /\ pc = "printed"
  /\ Len(cet0) = 3
  /\ ThreadChanges(cet0) = 2
  /\ cet0[2].op = CET_OP_RETURN
  /\ MarkerCount(result) = 3

\* The line matches one of the three line shapes.
MatchesShape(l) == MatchCall(l).ok \/ MatchAssume(l).ok \/ MatchGeneric(l).ok

\* t occurs in s as a run of consecutive characters.
Contains(s, t) ==
  \E k \in 0..(Len(s) - Len(t)) : SubSeq(s, k + 1, k + Len(t)) = t

RECURSIVE Unparsed(_)
Unparsed(ls) ==
  IF ls = <<>> THEN <<>>
  ELSE LET l == Unparsed(SubSeq(ls, 1, Len(ls) - 1)) \o Strip(Last(ls))
       IN  IF MatchesShape(l) THEN <<>> ELSE l

C4_ParsedNesting == pc = "parsed" => Normalized(converted)

\* C8: every element of a sequence the parser returns has one of the six
\* operation names: a line of the generic shape with another word for its
\* operation yields no element.
C8_KnownOps ==
  pc = "parsed" => \A k \in DOMAIN converted : converted[k].op \in CET_OPS

\* The parser's loop body is at a line of the first shape: a call or an end marker.
AtCallLine ==
  /\ pc = "parse_line"
  /\ parse_i <= Len(lines)
  /\ MatchCall(JoinLine(not_parsed, lines[parse_i])).ok

\* The call or end-marker line the parser is at.
CallLine == MatchCall(JoinLine(not_parsed, lines[parse_i]))

\* The number of returns the rule of the claim asks for at depth d after depth p.
RuleCount(d, p) ==
  CASE d = p -> 1
    [] d < p -> p - d + 1
    [] d > p -> 0

\* C11: a call line at depth d after a call line at depth p of the same thread
\* segment makes the parser emit exactly RuleCount(d, p) returns, each naming
\* the function popped from the top of the stack, then the call, which is
\* pushed; an end-marker line emits the returns of the same rule, pushes
\* nothing, increments the thread counter and resets the depth tracking.
C11_ReturnRule ==
  [][(AtCallLine /\ (cur_level >= 0 \/ CallLine.func = CET_END))
       => LET n == RuleCount(CallLine.level, cur_level)
              isEnd == CallLine.func = CET_END
          IN  /\ Len(converted') = Len(converted) + n + (IF isEnd THEN 0 ELSE 1)
              /\ SubSeq(converted', 1, Len(converted)) = converted
              /\ n <= Len(stack)
              /\ \A k \in 1..n :
                   /\ converted'[Len(converted) + k].op = CET_OP_RETURN
                   /\ converted'[Len(converted) + k].display_name
                        = stack[Len(stack) - k + 1]
              /\ IF isEnd
                   THEN /\ stack' = SubSeq(stack, 1, Len(stack) - n)
                        /\ cur_thread' = cur_thread + 1
                        /\ cur_level' = -1
                 ELSE /\ Last(converted').op = CET_OP_CALL
                      /\ Last(converted').display_name = CallLine.func
                      /\ stack' = Append(SubSeq(stack, 1, Len(stack) - n), CallLine.func)
                      /\ cur_thread' = cur_thread
                      /\ cur_level' = CallLine.level]_vars

\* The arguments of the caller's latest call, as they were passed.
PassedArgs(p) ==
  LET calls == SelectSeq(log, LAMBDA e : e.ev = "call" /\ e.p = p)
  IN  calls[Len(calls)].args

\* The set of names a list-valued option of the arguments denotes: the elements
\* of a list, the names between the commas of a string, none when it is absent.
Denoted(a, tag) ==
  IF a.ty = "None" \/ tag \notin DOMAIN a.val THEN {}
  ELSE LET v == a.val[tag]
       IN  IF v.ty = "list" THEN {v.val[k] : k \in DOMAIN v.val}
           ELSE IF v.ty = "str" /\ v.val # <<>>
             THEN LET l == SplitComma(v.val, <<>>) IN {l[k] : k \in DOMAIN l}
           ELSE {}

ListTags == {TAG_ADDITIONAL_MODEL_FUNCTIONS, TAG_FILTERED_MODEL_FUNCTIONS}

\* The options of the arguments that are not list-valued.
OtherOptions(a) ==
  IF a.ty = "None" THEN EmptyDict
  ELSE [t \in (DOMAIN a.val) \ ListTags |-> a.val[t]]

\* Two argument mappings that differ at most in how their list-valued options
\* are written: the order of the names, a list or a comma-separated string.
SameArguments(a, b) ==
  /\ \A tag \in ListTags : Denoted(a, tag) = Denoted(b, tag)
  /\ OtherOptions(a) = OtherOptions(b)

\* Python's == of two dicts of argument values
DictEq(a, b) ==
  /\ DOMAIN a = DOMAIN b
  /\ \A t \in DOMAIN a : PyEq(a[t], b[t])

\* The call of the caller has gone through process_args and json.dumps.
Canonicalized(p) == goc[p].pc \in {"lookup", "convert", "store", "returned"}

\* C12: two argument mappings whose list-valued options denote the same sets of
\* names, in any order, as a list or as a comma-separated string, are equal
\* after process_args and serialize to the same cache-key string.
C12_Canonical ==
  \A p, q \in Procs :
    (Canonicalized(p) /\ Canonicalized(q) /\ SameArguments(PassedArgs(p), PassedArgs(q)))
      => /\ DictEq(goc[p].args.val, goc[q].args.val)
         /\ goc[p].args_str = goc[q].args_str

\* The caller is at the test of the type with an object of an unknown type.
AtUnknownType(p) == goc[p].pc = "type" /\ goc[p].unsafe.kind = "other"

\* C13: a call with an object that is neither a ReportUnsafe nor a MarkUnsafe
\* raises at once: from the call to the error there is no cache lookup, no
\* archive read, no conversion and no cache store, and args is left as passed.
C13_UnknownType ==
  [][\A p \in Procs :
       (AtUnknownType(p) /\ goc'[p] # goc[p])
         => /\ log[Len(log)].ev = "call" /\ log[Len(log)].p = p
            /\ goc'[p].pc = "raised"
            /\ goc'[p].error = "BridgeException: Unknown type of unsafe"
            /\ log' = log
            /\ cache' = cache
            /\ goc'[p].caller_args = PassedArgs(p)]_vars

\* A call with an object of an unknown type that has a report attribute, and
\* with arguments process_args would change, has raised while the cache holds a row.
C13_Witness ==
  /\ goc[1].pc = "raised"
  /\ goc[1].unsafe = Unsafe("other", TheReport, NoReport)
  /\ goc[1].error = "BridgeException: Unknown type of unsafe"
  /\ PassedArgs(1).ty = "dict"
  /\ ProcessArgs(PassedArgs(1).val, FALSE) # PassedArgs(1).val
  /\ cache # <<>>

\* No caller is inside get_or_convert_error_trace.
AllEnded == \A p \in Procs : goc[p].pc \in {"idle", "returned", "raised"}

\* The key of a row of the cache.
RowKey(r) == <<r.unsafe, r.function, r.args>>

\* C14: after any interleaving of concurrent calls for the same key, the cache
\* holds at most one row of that key and the conversion of that key has been
\* computed at most once.
C14_AtMostOnce ==
  AllEnded =>
    /\ \A i, j \in DOMAIN cache : RowKey(cache[i]) = RowKey(cache[j]) => i = j
    /\ \A i, j \in DOMAIN log :
         (log[i].ev = "convert" /\ log[j].ev = "convert" /\ log[i].key = log[j].key)
           => i = j

\* The index in the log of the latest call.
LastCall == CHOOSE i \in DOMAIN log : log[i].ev = "call" /\ \A j \in (i + 1)..Len(log) : log[j].ev # "call"

\* What the latest call has done so far, and the cache as that call found it.
Done == [k \in 1..(Len(log) - LastCall) |-> log[LastCall + k].ev]
CacheAtCall == log[LastCall].cache

\* The rows of the key of the frame among the given rows.
RowsOf(rows, f) ==
  SelectSeq(rows, LAMBDA r : /\ r.unsafe = f.report_unsafe
                             /\ r.function = f.conversion_function
                             /\ r.args = f.args_str)

\* C15: a sequential call converts only when the cache has no row of its key:
\* on a miss it reads the archive, converts once and stores exactly one row of
\* the key; a call that finds a row of its key reads no archive, converts
\* nothing and leaves the cache as it was; a conversion that fails on a miss
\* reaches the caller as an error and creates no row.
C15_MissThenHit ==
  LET f == goc[1]
  IN  /\ f.pc = "returned" =>
           IF RowsOf(CacheAtCall, f) # <<>>
             THEN /\ Done = <<"hit">>
                  /\ cache = CacheAtCall
           ELSE /\ Done = <<"miss", "read", "convert", "store">>
                /\ Len(cache) = Len(CacheAtCall) + 1
                /\ SubSeq(cache, 1, Len(CacheAtCall)) = CacheAtCall
                /\ Len(RowsOf(cache, f)) = 1
      /\ (f.pc = "raised" /\ f.report_unsafe # NoReport) =>
           /\ RowsOf(CacheAtCall, f) = <<>>
           /\ Done = <<"miss", "read">>
           /\ f.error = "conversion failure"
           /\ cache = CacheAtCall

\* The second call of a key, with the arguments written in another way than in
\* the first, has been served from the row the first call stored.
C15_Witness ==
  /\ goc[1].pc = "returned"
  /\ Done = <<"hit">>
  /\ Len(cache) = 1
  /\ PassedArgs(1).ty = "dict"
  /\ log[1].args.ty = "dict"
  /\ PassedArgs(1) # log[1].args

\* A conversion has failed on a miss after another key has been stored.
C15_WitnessFailure ==
  /\ goc[1].pc = "raised"
  /\ goc[1].error = "conversion failure"
  /\ Len(cache) = 1

\* C16: the function returns the converted trace as a list of elements, and the
\* same value whether the trace is freshly converted or served from the cache:
\* every call that returns, the second of a key as the first, returns the list
\* the conversion yields for the report and the conversion function.
C16_SameResult ==
  goc[1].pc = "returned" =>
    /\ goc[1].converted_error_trace.ty = "list"
    /\ goc[1].converted_error_trace
         = ConvertErrorTrace(archive, goc[1].conversion_function)

\* The conversion functions of the calls made after the call for the base
\* trace, in the order of the calls.
Requested ==
  LET calls == SelectSeq(log, LAMBDA e : e.ev = "call")
  IN  [k \in 1..(Len(calls) - 1) |-> calls[k + 1].conversion_function]

\* The order the claim gives: model functions, then call tree.
ClaimedOrder == <<CONVERSION_FUNCTION_MODEL_FUNCTIONS, CONVERSION_FUNCTION_CALL_TREE>>

\* The comparison has found the trace of the k-th compared function equivalent.
Matched(k) == k <= Len(auto.verdicts) /\ auto.verdicts[k].verdict = "equal"

\* C17: the conversion functions are tried in the order model functions, call
\* tree, up to the first whose trace is equivalent to the edited trace: the
\* function returns is_equal = true with that function, does not ask for the
\* call-tree conversion when model functions has matched, and returns
\* is_equal = false with the default conversion function when neither matches.
C17_FirstMatch ==
  auto.pc = "returned" =>
    /\ Requested = SubSeq(ClaimedOrder, 1, Len(Requested))
    /\ \A k \in DOMAIN auto.verdicts : auto.verdicts[k].cv = ClaimedOrder[k]
    /\ IF Matched(1)
         THEN /\ auto.is_equal
              /\ auto.conversion_function = CONVERSION_FUNCTION_MODEL_FUNCTIONS
              /\ Requested = <<CONVERSION_FUNCTION_MODEL_FUNCTIONS>>
       ELSE IF Matched(2)
         THEN /\ auto.is_equal
              /\ auto.conversion_function = CONVERSION_FUNCTION_CALL_TREE
              /\ Requested = ClaimedOrder
       ELSE /\ ~auto.is_equal
            /\ auto.conversion_function = DEFAULT_CONVERSION_FUNCTION
            /\ Requested = ClaimedOrder

\* The function has returned the call-tree conversion after model functions
\* did not match, with a note kept.
C17_Witness ==
  /\ auto.pc = "returned"
  /\ auto.is_equal
  /\ auto.conversion_function = CONVERSION_FUNCTION_CALL_TREE
  /\ auto.verdicts[1].verdict = "different"
  /\ auto.is_note_changed

IsNote(e) == e.op = CET_OP_NOTE
IsNoNote(e) == e.op # CET_OP_NOTE

\* The base converted trace of the report: what the default conversion yields
\* for its archive (the cache is empty when the function is called).
BaseTrace == ConvertErrorTrace(archive, DEFAULT_CONVERSION_FUNCTION).val

\* The loop over the visual trace has ended.
Edited == auto.pc \in {"try", "converted", "returned"}

\* The elements of s are elements of t, in the order of t; a note may differ
\* from its element of t in its text.
Retained(s, t) ==
  \E f \in [DOMAIN s -> DOMAIN t] :
    /\ \A j, k \in DOMAIN s : j < k => f[j] < f[k]
    /\ \A k \in DOMAIN s :
         IF IsNote(s[k])
           THEN [s[k] EXCEPT !.display_name = None] = [t[f[k]] EXCEPT !.display_name = None]
         ELSE s[k] = t[f[k]]

\* C18: the edited trace holds every non-note element of the visual trace in
\* its order, and a note of the visual trace only if the base converted trace
\* has a note with the same id, whose text the kept note carries; a note with
\* no such note in the base trace is dropped.  The returned args hold the
\* ignore-note-text option exactly when a note has been kept, and are empty
\* otherwise.
C18_Notes ==
  /\ Edited =>
       /\ Retained(auto.edited_error_trace, auto.visual0)
       /\ SelectSeq(auto.edited_error_trace, IsNoNote) = SelectSeq(auto.visual0, IsNoNote)
       /\ \A k \in DOMAIN auto.edited_error_trace :
            LET e == auto.edited_error_trace[k]
            IN  IsNote(e) =>
                  \E j \in DOMAIN BaseTrace :
                    /\ IsNote(BaseTrace[j])
                    /\ BaseTrace[j].id = e.id
                    /\ BaseTrace[j].display_name = e.display_name
       /\ auto.is_note_changed = (SelectSeq(auto.edited_error_trace, IsNote) # <<>>)
  /\ auto.pc = "returned" =>
       auto.args = IF SelectSeq(auto.edited_error_trace, IsNote) # <<>>
                     THEN IgnoreNotesText ELSE DictV(EmptyDict)

\* The function has returned an edited trace with one note of two: the kept
\* note carries another text than in the visual trace, the other is dropped.
C18_Witness ==
  /\ auto.pc = "returned"
  /\ Len(auto.visual0) = 2
  /\ IsNote(auto.visual0[1]) /\ IsNote(auto.visual0[2])
  /\ Len(auto.edited_error_trace) = 1
  /\ auto.edited_error_trace[1].id = auto.visual0[1].id
  /\ auto.edited_error_trace[1].display_name # auto.visual0[1].display_name
  /\ auto.args = IgnoreNotesText

\* The trace holds calls and returns of thread 0 only.
SingleThread(s) ==
  \A i \in DOMAIN s :
    /\ s[i].op \in {CET_OP_CALL, CET_OP_RETURN}
    /\ s[i].thread = IntV(0)

\* C19: for a trace of calls and returns of thread 0 in which each return names
\* the most recent unreturned call (calls may stay open at the end),
\* parse(print(s)) is returned, has the length of s and the op and the
\* display_name of s at every position, with every id 0 and every thread 0.
C19_CallsRoundTrip ==
  (SingleThread(cet0) /\ Normalized(cet0)) =>
    /\ ~Raised
    /\ pc = "parsed" =>
         /\ Len(converted) = Len(cet0)
         /\ \A i \in DOMAIN cet0 :
              /\ converted[i].op = cet0[i].op
              /\ converted[i].display_name = cet0[i].display_name
              /\ converted[i].id = 0
              /\ converted[i].thread = IntV(0)

\* A trace with two nested calls, both returned, and a call after them has been
\* parsed back: the line of the last call stands for the two returns.
C19_Witness ==
  /\ pc = "parsed"
  /\ Normalized(cet0)
  /\ Len(cet0) = 5
  /\ cet0[2].op = CET_OP_CALL
  /\ cet0[3].op = CET_OP_RETURN
  /\ cet0[4].op = CET_OP_RETURN
  /\ cet0[5].op = CET_OP_CALL
  /\ cet0[1].display_name # cet0[2].display_name
  /\ converted[3].op = CET_OP_RETURN
  /\ converted[4].op = CET_OP_RETURN
  /\ converted[4].display_name = cet0[1].display_name

\* The parser is at work on the text the printer has made, or has ended.
Parsing == pc \in {"parse_line", "parsed", "parse_raised", "parse_error"}

\* C20: while the parser processes the text the printer has made from a trace
\* of calls and returns, its stack holds at least cur_level + 1 entries after
\* each call line, it never pops from an empty stack and it never fails.
C20_StackDepth ==
  Parsing =>
    /\ Len(stack) >= cur_level + 1
    /\ pc # "parse_raised"
    /\ pc # "parse_error"

\* No element of the trace has the name of the end marker.
NoEndName(s) == \A i \in DOMAIN s : s[i].display_name # CET_END

\* The statement of C20 for the traces without the name of the end marker.
C20_OtherNames == NoEndName(cet0) => C20_StackDepth

====
